---- MODULE Spec2Model ----
(***************************************************************************)
(* Model of the AccountSplitting transfer commands:                        *)
(*   cmd/batch_transfer.go   readWalletsFromCSV, ExecuteBatchTransfer,     *)
(*                           getTransactOpts, BatchTransferCmd.Run         *)
(*   cmd/single_transfer.go  SingleTransferCmd.Run                         *)
(* and of the node-latency probe:                                          *)
(*   unnamed/part_000        CheckRPCCmd.Run, checkNode, outputText        *)
(* A text field is a sequence of string tokens; the token " " is white     *)
(* space.  A uint64 is four 16-bit limbs, most significant first, so that  *)
(* the arithmetic on gas limits keeps its 64-bit width.                    *)
(***************************************************************************)
EXTENDS Integers, Sequences, FiniteSets, TLC

(* ------------------------------ bounds -------------------------------- *)
\* largest number of chunks a recipients ledger of the model fills
MaxBatches == 3
\* largest number of sender wallets in a single-transfer ledger
MaxSenders == 3
\* largest number of rows / columns of a file given to the ledger reader alone
MaxRows == 3
MaxCols == 4
\* number of endpoints check-rpc probes
MaxNodes == 3

(* ------------------------------ uint64 -------------------------------- *)
LimbBase == 2^16

U64(n) == <<0, 0, n \div LimbBase, n % LimbBase>>

U64Zero == U64(0)

\* x * k modulo 2^64, for a small k
U64Mul(x, k) ==
    LET p4 == x[4] * k
        p3 == x[3] * k + (p4 \div LimbBase)
        p2 == x[2] * k + (p3 \div LimbBase)
        p1 == x[1] * k + (p2 \div LimbBase)
    IN  <<p1 % LimbBase, p2 % LimbBase, p3 % LimbBase, p4 % LimbBase>>

\* x / d truncating, for a small d
U64Div(x, d) ==
    LET q1 == x[1] \div d
        r1 == x[1] % d
        t2 == r1 * LimbBase + x[2]
        t3 == (t2 % d) * LimbBase + x[3]
        t4 == (t3 % d) * LimbBase + x[4]
    IN  <<q1, t2 \div d, t3 \div d, t4 \div d>>

\* x + k modulo 2^64, for a small k
U64Add(x, k) ==
    LET s4 == x[4] + k
        s3 == x[3] + (s4 \div LimbBase)
        s2 == x[2] + (s3 \div LimbBase)
        s1 == x[1] + (s2 \div LimbBase)
    IN  <<s1 % LimbBase, s2 % LimbBase, s3 % LimbBase, s4 % LimbBase>>

\* gasLimit * 12 / 10 on uint64: the product wraps, the quotient truncates
GasBuffer(g) == U64Div(U64Mul(g, 12), 10)

(* ------------------------------ strings ------------------------------- *)
Min(a, b) == IF a < b THEN a ELSE b

RECURSIVE TrimLeft(_)
TrimLeft(s) == IF s # <<>> /\ Head(s) = " " THEN TrimLeft(Tail(s)) ELSE s

RECURSIVE TrimRight(_)
TrimRight(s) ==
    IF s # <<>> /\ s[Len(s)] = " " THEN TrimRight(SubSeq(s, 1, Len(s) - 1)) ELSE s

\* strings.TrimSpace
TrimSpace(s) == TrimRight(TrimLeft(s))

\* strings.TrimPrefix(s, "0x")
TrimPrefix0x(s) == IF s # <<>> /\ Head(s) = "0x" THEN Tail(s) ELSE s

(* --------------------------- ledger reader ---------------------------- *)
expectedHeaders == << <<"Address">>, <<"Private Key">>, <<"Mnemonic">> >>

NoFile == [exists |-> FALSE, rows |-> <<>>]
FileOf(rows) == [exists |-> TRUE, rows |-> rows]

ReadError(msg) == [kind |-> "error", msg |-> msg, wallets |-> <<>>]
ReadPanic == [kind |-> "panic", msg |-> "index out of range", wallets |-> <<>>]

\* csv.Reader.ReadAll with FieldsPerRecord = 0: every record must have as many
\* fields as the first one
csvReadAll(rows) ==
    IF \E i \in 1..Len(rows) : Len(rows[i]) # Len(rows[1])
    THEN [err |-> TRUE, records |-> <<>>]
    ELSE [err |-> FALSE, records |-> rows]

\* for i, header := range expectedHeaders { if headers[i] != header {...} }
RECURSIVE checkHeaders(_, _)
checkHeaders(headers, i) ==
    IF i > Len(expectedHeaders) THEN "ok"
    ELSE IF i > Len(headers) THEN "panic"
    ELSE IF headers[i] # expectedHeaders[i] THEN "mismatch"
    ELSE checkHeaders(headers, i + 1)

WalletInfo(record) ==
    [Address    |-> TrimSpace(record[1]),
     PrivateKey |-> TrimSpace(record[2]),
     Mnemonic   |-> TrimSpace(record[3])]

\* the reader without the validation of the header row
readWalletsNoHeaderCheck(file) ==
    IF ~file.exists THEN ReadError("open")
    ELSE LET r == csvReadAll(file.rows)
             records == r.records
         IN  IF r.err THEN ReadError("read")
             ELSE IF Len(records) < 2 THEN ReadError("empty")
             ELSE IF \E i \in 2..Len(records) : Len(records[i]) # 3
                  THEN ReadError("row")
                  ELSE [kind |-> "ok", msg |-> "",
                        wallets |-> [i \in 1..(Len(records) - 1) |->
                                        WalletInfo(records[i + 1])]]

readWalletsFromCSV(file) ==
    IF ~file.exists THEN ReadError("open")
    ELSE LET r == csvReadAll(file.rows)
             records == r.records
         IN  IF r.err THEN ReadError("read")
             ELSE IF Len(records) < 2 THEN ReadError("empty")
             ELSE LET h == checkHeaders(records[1], 1)
                  IN  IF h = "panic" THEN ReadPanic
                      ELSE IF h = "mismatch" THEN ReadError("header")
                      ELSE IF \E i \in 2..Len(records) : Len(records[i]) # 3
                           THEN ReadError("row")
                           ELSE [kind |-> "ok", msg |-> "",
                                 wallets |-> [i \in 1..(Len(records) - 1) |->
                                                 WalletInfo(records[i + 1])]]

(* ------------------------- keys and addresses ------------------------- *)
\* common.HexToAddress: the hex digits, with or without the 0x prefix
HexToAddress(s) == TrimPrefix0x(s)

\* crypto.HexToECDSA: a key parses iff it is the token "key" and an identifier
HexToECDSA(s) ==
    IF Len(s) = 2 /\ s[1] = "key"
    THEN [ok |-> TRUE, key |-> s[2]]
    ELSE [ok |-> FALSE, key |-> ""]

\* crypto.PubkeyToAddress
PubkeyToAddress(key) == <<key>>

(* ------------------------------ inputs -------------------------------- *)
batchSize == 300

coolDown == 5

HeaderRow == expectedHeaders

\* recipient / sender i of a ledger; the first record carries surrounding
\* white space, the second has no 0x prefixes
LedgerRow(i, goodKey) ==
    << IF i = 1 THEN <<" ", "0x", ToString(i), " ">>
       ELSE IF i = 2 THEN <<ToString(i)>>
       ELSE <<"0x", ToString(i)>>,
       IF ~goodKey THEN <<"zz">>
       ELSE IF i = 2 THEN <<"key", ToString(i)>>
       ELSE <<"0x", "key", ToString(i)>>,
       <<"m">> >>

\* a well-formed ledger of n wallets; wallet number bad (if any) has a key
\* that does not parse
Ledger(n, bad) ==
    FileOf([r \in 1..(n + 1) |-> IF r = 1 THEN HeaderRow ELSE LedgerRow(r - 1, r - 1 # bad)])

\* ledgers the reader rejects, or on which it fails
BadLedgers ==
    { NoFile,
      FileOf(<<HeaderRow>>),
      FileOf(<< <<<<"Addr">>, <<"Key">>>>, <<<<"0x", "1">>, <<"key", "1">>>> >>),
      FileOf(<< <<<<"Address">>, <<"Private Key">>>>, <<<<"0x", "1">>, <<"key", "1">>>> >>),
      FileOf(<< <<<<"Addr">>, <<"Private Key">>, <<"Mnemonic">>>>, LedgerRow(1, TRUE) >>) }

LedgerSizes ==
    { k * batchSize + d : k \in 0..(MaxBatches - 1), d \in {0, 1, 50} } \ {0}

RecipientLedgers == { Ledger(n, 0) : n \in LedgerSizes } \cup BadLedgers

SenderLedgers ==
    { Ledger(n, bad) : n \in 1..MaxSenders, bad \in 0..MaxSenders } \cup BadLedgers

BatchSenderLedgers == { Ledger(1, 0), Ledger(1, 1), FileOf(<<HeaderRow>>) }

\* a float64 multiplier times a scale, truncated to int64 (IEEE-754 products)
ScaledMultiplier(m, scale) ==
    CASE m = "1.0001" /\ scale = 100   -> 100
      [] m = "1.0001" /\ scale = 10000 -> 10001
      [] m = "1.5"    /\ scale = 100   -> 150
      [] m = "1.5"    /\ scale = 10000 -> 15000
      [] m = "1.15"   /\ scale = 100   -> 114
      [] m = "1.15"   /\ scale = 10000 -> 11500

\* the node's suggested gas price with the --gas-multiplier of the run
FeeInputs ==
    { [price |-> 0,     multiplier |-> "1.0001"],
      [price |-> 0,     multiplier |-> "1.15"],
      [price |-> 20000, multiplier |-> "1.0001"],
      [price |-> 20000, multiplier |-> "1.5"] }

\* the same, each with a value of --batch-size (300 is the flag's default)
BatchFeeInputs ==
    { [price |-> 0,     multiplier |-> "1.0001", batchSize |-> batchSize],
      [price |-> 0,     multiplier |-> "1.5",    batchSize |-> 100],
      [price |-> 20000, multiplier |-> "1.0001", batchSize |-> 100],
      [price |-> 20000, multiplier |-> "1.5",    batchSize |-> batchSize] }

Amounts == {3}

\* --max-wallets
BatchCaps == {0, 2, batchSize + 50}
SingleCaps == {0, 2}

\* --delay
Delays == {0, 30}

\* --gas-limit with the chain's estimation base: fixed, or estimated from a
\* small or from a huge base
GasModes ==
    { [gasLimit |-> U64(21000), estimateBase |-> U64(30000)],
      [gasLimit |-> U64Zero,    estimateBase |-> U64(30000)],
      [gasLimit |-> U64Zero,    estimateBase |-> <<2^15, 0, 0, 0>>] }

(* ------------------------------- state -------------------------------- *)
VARIABLES
    cmd,            \* "batch-transfer", "single-transfer", "read" or "check-rpc"
    pc,             \* position in the running command
    result,         \* how the run ended: status "running", "ok", "fatal" or "panic"
    flags,          \* command-line flags and the files they name
    chain,          \* what the node answers: suggested gas price, estimation base
    gasPriceWei,    \* gas price after the multiplier
    cfg,            \* *Config given to ExecuteBatchTransfer
    wallets, totalWallets, totalBatches,
    batchIndex,     \* loop index of ExecuteBatchTransfer
    i,              \* loop index of SingleTransferCmd.Run
    auth,           \* *bind.TransactOpts reused across batches
    recipients, amounts,
    tx,             \* the single-transfer loop's locals: key, from, nonce, gasLimit
    successCount, failCount,
    calls,          \* chain client calls made so far, in order
    sent,           \* transactions submitted so far, in order
    sleeps,         \* time.Sleep calls made so far, in order
    attempted,      \* units whose loop body was entered, in order
    outcomes,       \* terminal outcome of each unit, in order
    readResult,     \* what readWalletsFromCSV returned to the "read" command
    \* CheckRPCCmd.Run
    nodes,          \* the endpoints to check: 1..len(nodes)
    probeFlags,     \* --stats and --format
    mainPc,         \* position of Run's goroutine
    probePc,        \* position of each checking goroutine
    closerPc,       \* position of the goroutine that waits and closes
    wg,             \* sync.WaitGroup counter
    results,        \* buffer of the results channel
    closed,         \* the results channel is closed
    pending,        \* the NodeResult each check is about to send
    nodeResults,    \* results collected by Run
    capNodeResults, \* cap(nodeResults)
    delivered,      \* what each check has sent: "success" or "error" per result
    closes,         \* number of close(results) executed
    fault           \* "none", or the runtime panic that ended the command

vars == <<cmd, pc, result, flags, chain, gasPriceWei, cfg, wallets, totalWallets,
          totalBatches, batchIndex, i, auth, recipients, amounts, tx, successCount,
          failCount, calls, sent, sleeps, attempted, outcomes, readResult,
          nodes, probeFlags, mainPc, probePc, closerPc, wg, results, closed, pending,
          nodeResults, capNodeResults, delivered, closes, fault>>

\* the state of the transfer commands
transferVars ==
    <<cmd, pc, result, flags, chain, gasPriceWei, cfg, wallets, totalWallets,
      totalBatches, batchIndex, i, auth, recipients, amounts, tx, successCount,
      failCount, calls, sent, sleeps, attempted, outcomes, readResult>>

\* the state of check-rpc
probeVars ==
    <<nodes, probeFlags, mainPc, probePc, closerPc, wg, results, closed, pending,
      nodeResults, capNodeResults, delivered, closes, fault>>

NoAuth == [From |-> <<>>, Value |-> 0, GasLimit |-> U64Zero, GasPrice |-> 0]
NoTx == [privateKey |-> "", fromAddress |-> <<>>, nonce |-> 0, gasLimit |-> U64Zero]
NoCfg == [CSVFilePath |-> "", AmountPerWallet |-> 0, GasLimit |-> U64Zero,
          GasPrice |-> 0, MaxWallets |-> 0, SenderWallet |-> WalletInfo(<<<<>>, <<>>, <<>>>>)]
Running == [status |-> "running", reason |-> "", unit |-> 0]
Ended(status, reason, unit) == [status |-> status, reason |-> reason, unit |-> unit]

NoRead == [kind |-> "none", msg |-> "", wallets |-> <<>>]

NoResult == [URL |-> 0, ResponseTime |-> 0, Error |-> "nil"]

InitLocals ==
    /\ pc = "start"
    /\ result = Running
    /\ gasPriceWei = 0
    /\ cfg = NoCfg
    /\ wallets = <<>> /\ totalWallets = 0 /\ totalBatches = 0
    /\ batchIndex = 0 /\ i = 0
    /\ auth = NoAuth
    /\ recipients = <<>> /\ amounts = <<>>
    /\ tx = NoTx
    /\ successCount = 0 /\ failCount = 0
    /\ calls = <<>> /\ sent = <<>> /\ sleeps = <<>> /\ attempted = <<>>
    /\ outcomes = <<>>
    /\ readResult = NoRead

\* check-rpc before Run, and while another command runs
InitProbeLocals ==
    /\ mainPc = "spawn" /\ closerPc = "idle"
    /\ probePc = [n \in nodes |-> "idle"]
    /\ pending = [n \in nodes |-> NoResult]
    /\ wg = 0 /\ results = <<>> /\ closed = FALSE
    /\ nodeResults = <<>> /\ capNodeResults = 0
    /\ delivered = [n \in nodes |-> <<>>] /\ closes = 0 /\ fault = "none"

NoProbe ==
    /\ nodes = {}
    /\ probeFlags = [showStats |-> FALSE, outputFormat |-> "text"]
    /\ InitProbeLocals

InitBatch ==
    /\ cmd = "batch-transfer"
    /\ \E csv \in RecipientLedgers, sender \in BatchSenderLedgers, idx \in {0, 1},
          amount \in Amounts, fee \in BatchFeeInputs, gm \in GasModes,
          cap \in BatchCaps :
          /\ flags = [csv |-> csv, senderCSV |-> sender, senderIndex |-> idx,
                      amount |-> amount, gasMultiplier |-> fee.multiplier,
                      batchSize |-> fee.batchSize,
                      gasLimit |-> gm.gasLimit, maxWallets |-> cap, delay |-> 0]
          /\ chain = [suggestedGasPrice |-> fee.price, estimateBase |-> gm.estimateBase]
    /\ InitLocals
    /\ NoProbe

InitSingle ==
    /\ cmd = "single-transfer"
    /\ \E csv \in SenderLedgers, amount \in Amounts, fee \in FeeInputs,
          gm \in GasModes, cap \in SingleCaps, d \in Delays :
          /\ flags = [csv |-> csv, senderCSV |-> NoFile, senderIndex |-> 0,
                      amount |-> amount, gasMultiplier |-> fee.multiplier, batchSize |-> batchSize,
                      gasLimit |-> gm.gasLimit, maxWallets |-> cap, delay |-> d]
          /\ chain = [suggestedGasPrice |-> fee.price, estimateBase |-> gm.estimateBase]
    /\ InitLocals
    /\ NoProbe

(* ------------------------------ helpers ------------------------------- *)
\* the file a path names: --csv or --sender-csv
FileAt(path) ==
    IF path = "csv" THEN flags.csv
    ELSE IF path = "sender-csv" THEN flags.senderCSV
    ELSE NoFile

Call(op, unit) == [op |-> op, unit |-> unit]

\* log.Fatal / log.Fatalf, or an error returned up to it: the process exits
Fatal(reason, unit) ==
    /\ pc' = "exit"
    /\ result' = Ended("fatal", reason, unit)

\* an unrecovered runtime panic: the process crashes
Panic(reason) ==
    /\ pc' = "exit"
    /\ result' = Ended("panic", reason, 0)

\* a price floor: a zero result is replaced by 1 wei
applyMultiplierFloorOne(suggested, m, scale) ==
    LET price == (suggested * ScaledMultiplier(m, scale)) \div scale
    IN  IF price = 0 THEN 1 ELSE price

\* suggestedGasPrice * int64(multiplier * scale) / scale
applyMultiplier(suggested, m, scale) ==
    (suggested * ScaledMultiplier(m, scale)) \div scale

\* what the node answers to EstimateGas for a unit
EstimateGas(unit) == U64Add(chain.estimateBase, unit)

\* what the node answers to PendingNonceAt for an address: every account has
\* its own next nonce
PendingNonceAt(addr) ==
    IF addr = <<>> THEN 0
    ELSE 10 * (CHOOSE n \in 1..MaxSenders : ToString(n) = addr[1])

\* a cap that is logged but not applied
truncateNothing(ws, max) == ws

\* if max > 0 && totalWallets > max { wallets = wallets[:max] }
truncateWallets(ws, max) ==
    IF max > 0 /\ Len(ws) > max THEN SubSeq(ws, 1, max) ELSE ws

\* a division that rounds down: the last, partial batch is dropped
countBatchesFloor(n) == n \div batchSize

\* totalBatches := (totalWallets + batchSize - 1) / batchSize
countBatches(n) == (n + batchSize - 1) \div batchSize

\* the value of a full batch, whatever the length of the current one
batchTotalAmountFull(amount, n) == amount * batchSize

\* batchTotalAmount := AmountPerWallet * len(currentBatch)
batchTotalAmount(amount, n) == amount * n

\* estimating whatever the fixed limit
batchAlwaysEstimate(limit) == TRUE

\* if cfg.GasLimit == 0 { estimate }
batchNeedsEstimate(limit) == limit = U64Zero

\* cooling down after the last batch too
batchCoolDownAfterLast(b, total) == b < total

\* if batchIndex < totalBatches-1 { sleep }
batchNeedsCoolDown(b, total) == b < total - 1

(* -------------------- BatchTransferCmd.Run (prologue) ------------------ *)
\* read the sender ledger and pick the sender wallet
BatchReadSender ==
    /\ cmd = "batch-transfer" /\ pc = "start"
    /\ LET r == readWalletsFromCSV(FileAt("sender-csv"))
       IN  IF r.kind = "panic" THEN Panic("sender ledger") /\ UNCHANGED cfg
           ELSE IF r.kind = "error" THEN Fatal("sender ledger", 0) /\ UNCHANGED cfg
           ELSE IF flags.senderIndex >= Len(r.wallets)
                THEN Fatal("sender index", 0) /\ UNCHANGED cfg
                ELSE /\ cfg' = [cfg EXCEPT !.SenderWallet = r.wallets[flags.senderIndex + 1]]
                     /\ pc' = "connect"
                     /\ UNCHANGED result
    /\ UNCHANGED <<cmd, flags, chain, gasPriceWei, wallets, totalWallets, totalBatches,
                   batchIndex, i, auth, recipients, amounts, tx, successCount, failCount,
                   calls, sent, sleeps, attempted, outcomes, readResult>>
    /\ UNCHANGED probeVars

\* dial, ask the suggested gas price, apply the multiplier, build the Config
BatchConnect ==
    /\ cmd = "batch-transfer" /\ pc = "connect"
    /\ calls' = calls \o <<Call("SuggestGasPrice", 0)>>
    /\ \/ /\ Fatal("suggest gas price", 0)
          /\ UNCHANGED <<gasPriceWei, cfg>>
       \/ LET price == applyMultiplier(chain.suggestedGasPrice, flags.gasMultiplier, 100)
          IN  /\ gasPriceWei' = price
              /\ cfg' = [cfg EXCEPT !.CSVFilePath = "csv",
                                    !.AmountPerWallet = flags.amount,
                                    !.GasLimit = flags.gasLimit,
                                    !.GasPrice = price,
                                    !.MaxWallets = flags.maxWallets]
              /\ pc' = "execute"
              /\ UNCHANGED result
    /\ UNCHANGED <<cmd, flags, chain, wallets, totalWallets, totalBatches, batchIndex, i,
                   auth, recipients, amounts, tx, successCount, failCount, sent, sleeps,
                   attempted, outcomes, readResult>>
    /\ UNCHANGED probeVars

(* ------------------------- ExecuteBatchTransfer ------------------------ *)
\* read the recipients, truncate to MaxWallets, count the batches
BatchReadWallets ==
    /\ cmd = "batch-transfer" /\ pc = "execute"
    /\ LET r == readWalletsFromCSV(FileAt(cfg.CSVFilePath))
           ws == truncateWallets(r.wallets, cfg.MaxWallets)
       IN  IF r.kind = "panic"
           THEN Panic("recipient ledger") /\ UNCHANGED <<wallets, totalWallets, totalBatches>>
           ELSE IF r.kind = "error"
           THEN Fatal("recipient ledger", 0) /\ UNCHANGED <<wallets, totalWallets, totalBatches>>
           ELSE /\ wallets' = ws
                /\ totalWallets' = Len(ws)
                /\ totalBatches' = countBatches(Len(ws))
                /\ pc' = "opts"
                /\ UNCHANGED result
    /\ UNCHANGED <<cmd, flags, chain, gasPriceWei, cfg, batchIndex, i, auth, recipients,
                   amounts, tx, successCount, failCount, calls, sent, sleeps, attempted,
                   outcomes, readResult>>
    /\ UNCHANGED probeVars

\* getTransactOpts: parse the sender key, ask the chain id, fill the options
getTransactOpts ==
    /\ cmd = "batch-transfer" /\ pc = "opts"
    /\ LET k == HexToECDSA(TrimPrefix0x(cfg.SenderWallet.PrivateKey))
       IN  IF ~k.ok
           THEN Fatal("sender key", 0) /\ UNCHANGED <<auth, calls>>
           ELSE /\ calls' = calls \o <<Call("ChainID", 0)>>
                /\ \/ Fatal("chain id", 0) /\ UNCHANGED auth
                   \/ /\ auth' = [From |-> PubkeyToAddress(k.key), Value |-> 0,
                                  GasLimit |-> cfg.GasLimit, GasPrice |-> cfg.GasPrice]
                      /\ pc' = "loop"
                      /\ UNCHANGED result
    /\ UNCHANGED <<cmd, flags, chain, gasPriceWei, cfg, wallets, totalWallets,
                   totalBatches, batchIndex, i, recipients, amounts, tx, successCount,
                   failCount, sent, sleeps, attempted, outcomes, readResult>>
    /\ UNCHANGED probeVars

\* first and last ledger position (1-based, inclusive) of batch number b (0-based)
batchStart(b) == b * batchSize + 1
batchEnd(b) == Min((b + 1) * batchSize, totalWallets)

\* applying the multiplier again at every batch
BatchPrepareReprice ==
    /\ cmd = "batch-transfer" /\ pc = "loop" /\ batchIndex < totalBatches
    /\ LET currentBatch == SubSeq(wallets, batchStart(batchIndex), batchEnd(batchIndex))
       IN  /\ recipients' = [j \in 1..Len(currentBatch) |-> HexToAddress(currentBatch[j].Address)]
           /\ amounts' = [j \in 1..Len(currentBatch) |-> cfg.AmountPerWallet]
           /\ auth' = [auth EXCEPT
                          !.Value = batchTotalAmount(cfg.AmountPerWallet, Len(currentBatch)),
                          !.GasPrice = IF batchIndex = 0 THEN auth.GasPrice
                                       ELSE applyMultiplier(auth.GasPrice, flags.gasMultiplier, 100)]
    /\ attempted' = Append(attempted, batchIndex + 1)
    /\ pc' = IF batchNeedsEstimate(cfg.GasLimit) THEN "estimate" ELSE "transact"
    /\ UNCHANGED <<cmd, result, flags, chain, gasPriceWei, cfg, wallets, totalWallets,
                   totalBatches, batchIndex, i, tx, successCount, failCount, calls, sent,
                   sleeps, outcomes, readResult>>
    /\ UNCHANGED probeVars

\* loop head: slice the current batch, build recipients / amounts, set auth.Value
BatchPrepare ==
    /\ cmd = "batch-transfer" /\ pc = "loop" /\ batchIndex < totalBatches
    /\ LET currentBatch == SubSeq(wallets, batchStart(batchIndex), batchEnd(batchIndex))
       IN  /\ recipients' = [j \in 1..Len(currentBatch) |-> HexToAddress(currentBatch[j].Address)]
           /\ amounts' = [j \in 1..Len(currentBatch) |-> cfg.AmountPerWallet]
           /\ auth' = [auth EXCEPT !.Value = batchTotalAmount(cfg.AmountPerWallet, Len(currentBatch))]
    /\ attempted' = Append(attempted, batchIndex + 1)
    /\ pc' = IF batchNeedsEstimate(cfg.GasLimit) THEN "estimate" ELSE "transact"
    /\ UNCHANGED <<cmd, result, flags, chain, gasPriceWei, cfg, wallets, totalWallets,
                   totalBatches, batchIndex, i, tx, successCount, failCount, calls, sent,
                   sleeps, outcomes, readResult>>
    /\ UNCHANGED probeVars

\* logging the failure and going on with the loop instead of returning
BatchAbortSkipped(reason, status) ==
    /\ pc' = "loop"
    /\ UNCHANGED result
    /\ outcomes' = Append(outcomes, [unit |-> batchIndex + 1, status |-> status])

\* reporting the loop index instead of the batch number
BatchAbortZeroBased(reason, status) ==
    /\ Fatal(reason, batchIndex)
    /\ outcomes' = Append(outcomes, [unit |-> batchIndex + 1, status |-> status])

\* return fmt.Errorf("第 %d 批 ...", batchIndex+1, err)
BatchAbort(reason, status) ==
    /\ Fatal(reason, batchIndex + 1)
    /\ outcomes' = Append(outcomes, [unit |-> batchIndex + 1, status |-> status])

\* estimating the first batch only and keeping its limit for the later ones
BatchEstimateGasOnce ==
    /\ cmd = "batch-transfer" /\ pc = "estimate"
    /\ calls' = Append(calls, Call("EstimateGas", batchIndex + 1))
    /\ \/ BatchAbort("estimate gas", "failed") /\ UNCHANGED auth
       \/ /\ auth' = [auth EXCEPT !.GasLimit = IF batchIndex = 0
                                               THEN GasBuffer(EstimateGas(batchIndex + 1))
                                               ELSE auth.GasLimit]
          /\ pc' = "transact"
          /\ UNCHANGED <<result, outcomes>>
    /\ UNCHANGED <<cmd, flags, chain, gasPriceWei, cfg, wallets, totalWallets,
                   totalBatches, batchIndex, i, recipients, amounts, tx, successCount,
                   failCount, sent, sleeps, attempted, readResult>>
    /\ UNCHANGED probeVars

\* client.EstimateGas for the batch, then the 20% buffer
BatchEstimateGas ==
    /\ cmd = "batch-transfer" /\ pc = "estimate"
    /\ calls' = Append(calls, Call("EstimateGas", batchIndex + 1))
    /\ \/ BatchAbort("estimate gas", "failed") /\ UNCHANGED auth
       \/ /\ auth' = [auth EXCEPT !.GasLimit = GasBuffer(EstimateGas(batchIndex + 1))]
          /\ pc' = "transact"
          /\ UNCHANGED <<result, outcomes>>
    /\ UNCHANGED <<cmd, flags, chain, gasPriceWei, cfg, wallets, totalWallets,
                   totalBatches, batchIndex, i, recipients, amounts, tx, successCount,
                   failCount, sent, sleeps, attempted, readResult>>
    /\ UNCHANGED probeVars

\* submitting and moving on to the next batch without waiting for the receipt
BatchTransactNoWait ==
    /\ cmd = "batch-transfer" /\ pc = "transact"
    /\ calls' = Append(calls, Call("Transact", batchIndex + 1))
    /\ sent' = Append(sent, [unit |-> batchIndex + 1, from |-> auth.From,
                             recipients |-> recipients, amounts |-> amounts,
                             value |-> auth.Value, gasLimit |-> auth.GasLimit,
                             gasPrice |-> auth.GasPrice, nonce |-> 0])
    /\ batchIndex' = batchIndex + 1
    /\ pc' = "loop"
    /\ UNCHANGED <<cmd, result, flags, chain, gasPriceWei, cfg, wallets, totalWallets,
                   totalBatches, i, auth, recipients, amounts, tx, successCount,
                   failCount, sleeps, attempted, outcomes, readResult>>
    /\ UNCHANGED probeVars

\* contract.Transact(auth, "batchSend", recipients, amounts)
BatchTransact ==
    /\ cmd = "batch-transfer" /\ pc = "transact"
    /\ calls' = Append(calls, Call("Transact", batchIndex + 1))
    /\ \/ BatchAbort("send transaction", "failed") /\ UNCHANGED sent
       \/ /\ sent' = Append(sent, [unit |-> batchIndex + 1, from |-> auth.From,
                                   recipients |-> recipients, amounts |-> amounts,
                                   value |-> auth.Value, gasLimit |-> auth.GasLimit,
                                   gasPrice |-> auth.GasPrice, nonce |-> 0])
          /\ pc' = "wait"
          /\ UNCHANGED <<result, outcomes>>
    /\ UNCHANGED <<cmd, flags, chain, gasPriceWei, cfg, wallets, totalWallets,
                   totalBatches, batchIndex, i, auth, recipients, amounts, tx,
                   successCount, failCount, sleeps, attempted, readResult>>
    /\ UNCHANGED probeVars

\* going on to the next batch after a receipt with status 0
BatchWaitMinedIgnoreStatus ==
    /\ cmd = "batch-transfer" /\ pc = "wait"
    /\ calls' = Append(calls, Call("WaitMined", batchIndex + 1))
    /\ \/ BatchAbort("wait mined", "failed") /\ UNCHANGED batchIndex
       \/ \E st \in {"reverted", "success"} :
             /\ outcomes' = Append(outcomes, [unit |-> batchIndex + 1, status |-> st])
             /\ IF batchNeedsCoolDown(batchIndex, totalBatches)
                THEN pc' = "sleep" /\ UNCHANGED batchIndex
                ELSE pc' = "loop" /\ batchIndex' = batchIndex + 1
             /\ UNCHANGED result
    /\ UNCHANGED <<cmd, flags, chain, gasPriceWei, cfg, wallets, totalWallets,
                   totalBatches, i, auth, recipients, amounts, tx, successCount,
                   failCount, sent, sleeps, attempted, readResult>>
    /\ UNCHANGED probeVars

\* bind.WaitMined, the receipt status, and the decision to cool down
BatchWaitMined ==
    /\ cmd = "batch-transfer" /\ pc = "wait"
    /\ calls' = Append(calls, Call("WaitMined", batchIndex + 1))
    /\ \/ BatchAbort("wait mined", "failed") /\ UNCHANGED batchIndex
       \/ BatchAbort("reverted", "reverted") /\ UNCHANGED batchIndex
       \/ /\ outcomes' = Append(outcomes, [unit |-> batchIndex + 1, status |-> "success"])
          /\ IF batchNeedsCoolDown(batchIndex, totalBatches)
             THEN pc' = "sleep" /\ UNCHANGED batchIndex
             ELSE pc' = "loop" /\ batchIndex' = batchIndex + 1
          /\ UNCHANGED result
    /\ UNCHANGED <<cmd, flags, chain, gasPriceWei, cfg, wallets, totalWallets,
                   totalBatches, i, auth, recipients, amounts, tx, successCount,
                   failCount, sent, sleeps, attempted, readResult>>
    /\ UNCHANGED probeVars

\* time.Sleep(5 * time.Second) between batches
BatchSleep ==
    /\ cmd = "batch-transfer" /\ pc = "sleep"
    /\ sleeps' = Append(sleeps, [after |-> batchIndex + 1, duration |-> coolDown])
    /\ batchIndex' = batchIndex + 1
    /\ pc' = "loop"
    /\ UNCHANGED <<cmd, result, flags, chain, gasPriceWei, cfg, wallets, totalWallets,
                   totalBatches, i, auth, recipients, amounts, tx, successCount,
                   failCount, calls, sent, attempted, outcomes, readResult>>
    /\ UNCHANGED probeVars

\* the loop is over: return nil
BatchFinish ==
    /\ cmd = "batch-transfer" /\ pc = "loop" /\ batchIndex >= totalBatches
    /\ pc' = "exit"
    /\ result' = Ended("ok", "", 0)
    /\ UNCHANGED <<cmd, flags, chain, gasPriceWei, cfg, wallets, totalWallets,
                   totalBatches, batchIndex, i, auth, recipients, amounts, tx,
                   successCount, failCount, calls, sent, sleeps, attempted, outcomes,
                   readResult>>
    /\ UNCHANGED probeVars

NextBatch ==
    \/ BatchReadSender
    \/ BatchConnect
    \/ BatchReadWallets
    \/ getTransactOpts
    \/ BatchPrepare
    \/ BatchEstimateGas
    \/ BatchTransact
    \/ BatchWaitMined
    \/ BatchSleep
    \/ BatchFinish

SpecBatch == InitBatch /\ [][NextBatch]_vars

(* ------------------------ SingleTransferCmd.Run ------------------------ *)
\* dial, ask the suggested gas price, apply the multiplier
SingleConnect ==
    /\ cmd = "single-transfer" /\ pc = "start"
    /\ calls' = Append(calls, Call("SuggestGasPrice", 0))
    /\ \/ Fatal("suggest gas price", 0) /\ UNCHANGED gasPriceWei
       \/ /\ gasPriceWei' = applyMultiplier(chain.suggestedGasPrice, flags.gasMultiplier, 10000)
          /\ pc' = "read"
          /\ UNCHANGED result
    /\ UNCHANGED <<cmd, flags, chain, cfg, wallets, totalWallets, totalBatches, batchIndex,
                   i, auth, recipients, amounts, tx, successCount, failCount, sent, sleeps,
                   attempted, outcomes, readResult>>
    /\ UNCHANGED probeVars

\* read the sender wallets and truncate to --max-wallets
SingleReadWallets ==
    /\ cmd = "single-transfer" /\ pc = "read"
    /\ LET r == readWalletsFromCSV(FileAt("csv"))
           ws == truncateWallets(r.wallets, flags.maxWallets)
       IN  IF r.kind = "panic"
           THEN Panic("wallet ledger") /\ UNCHANGED <<wallets, totalWallets>>
           ELSE IF r.kind = "error"
           THEN Fatal("wallet ledger", 0) /\ UNCHANGED <<wallets, totalWallets>>
           ELSE /\ wallets' = ws
                /\ totalWallets' = Len(ws)
                /\ pc' = "loop"
                /\ UNCHANGED result
    /\ UNCHANGED <<cmd, flags, chain, gasPriceWei, cfg, totalBatches, batchIndex, i, auth,
                   recipients, amounts, tx, successCount, failCount, calls, sent, sleeps,
                   attempted, outcomes, readResult>>
    /\ UNCHANGED probeVars

\* estimating whatever the fixed limit
singleAlwaysEstimate(limit) == TRUE

\* if gasLimit == 0 { estimate }
singleNeedsEstimate(limit) == limit = U64Zero

\* if i < totalWallets-1 && singleTransferDelay > 0 { sleep }
singleNeedsDelay(k, total, delay) == k < total - 1 /\ delay > 0

\* break instead of continue: the loop is left at the first failure
SingleFailBreak(reason) ==
    /\ failCount' = failCount + 1
    /\ outcomes' = Append(outcomes, [unit |-> i + 1, status |-> reason])
    /\ i' = Len(wallets)
    /\ pc' = "loop"
    /\ UNCHANGED successCount

\* continue without failCount++
SingleFailUncounted(reason) ==
    /\ failCount' = failCount
    /\ outcomes' = Append(outcomes, [unit |-> i + 1, status |-> reason])
    /\ i' = i + 1
    /\ pc' = "loop"
    /\ UNCHANGED successCount

\* counting the failure and trying the same wallet again
SingleFailRetry(reason) ==
    /\ failCount' = failCount + 1
    /\ outcomes' = Append(outcomes, [unit |-> i + 1, status |-> reason])
    /\ i' = i
    /\ pc' = "loop"
    /\ UNCHANGED successCount

\* failCount++; continue
SingleFail(reason) ==
    /\ failCount' = failCount + 1
    /\ outcomes' = Append(outcomes, [unit |-> i + 1, status |-> reason])
    /\ i' = i + 1
    /\ pc' = "loop"
    /\ UNCHANGED successCount

\* looking the nonce up before the key is parsed
SingleParseKeyAfterNonce ==
    /\ cmd = "single-transfer" /\ pc = "loop" /\ i < Len(wallets)
    /\ attempted' = Append(attempted, i + 1)
    /\ calls' = Append(calls, Call("PendingNonceAt", i + 1))
    /\ LET k == HexToECDSA(TrimPrefix0x(wallets[i + 1].PrivateKey))
       IN  IF ~k.ok
           THEN SingleFail("invalid key") /\ UNCHANGED tx
           ELSE /\ tx' = [privateKey |-> k.key, fromAddress |-> PubkeyToAddress(k.key),
                          nonce |-> PendingNonceAt(PubkeyToAddress(k.key)),
                          gasLimit |-> flags.gasLimit]
                /\ pc' = IF singleNeedsEstimate(flags.gasLimit) THEN "estimate" ELSE "sign"
                /\ UNCHANGED <<i, successCount, failCount, outcomes>>
    /\ UNCHANGED <<cmd, result, flags, chain, gasPriceWei, cfg, wallets, totalWallets,
                   totalBatches, batchIndex, auth, recipients, amounts, sent,
                   sleeps, readResult>>
    /\ UNCHANGED probeVars

\* loop head: take wallet i and parse its private key
SingleParseKey ==
    /\ cmd = "single-transfer" /\ pc = "loop" /\ i < Len(wallets)
    /\ attempted' = Append(attempted, i + 1)
    /\ LET k == HexToECDSA(TrimPrefix0x(wallets[i + 1].PrivateKey))
       IN  IF ~k.ok
           THEN SingleFail("invalid key") /\ UNCHANGED tx
           ELSE /\ tx' = [privateKey |-> k.key, fromAddress |-> PubkeyToAddress(k.key),
                          nonce |-> 0, gasLimit |-> U64Zero]
                /\ pc' = "nonce"
                /\ UNCHANGED <<i, successCount, failCount, outcomes>>
    /\ UNCHANGED <<cmd, result, flags, chain, gasPriceWei, cfg, wallets, totalWallets,
                   totalBatches, batchIndex, auth, recipients, amounts, calls, sent,
                   sleeps, readResult>>
    /\ UNCHANGED probeVars

\* a nonce looked up for the first wallet only and counted up locally after
SingleNonceCached ==
    /\ cmd = "single-transfer" /\ pc = "nonce"
    /\ IF sent = <<>>
       THEN /\ calls' = Append(calls, Call("PendingNonceAt", i + 1))
            /\ \/ SingleFail("nonce") /\ UNCHANGED tx
               \/ /\ tx' = [tx EXCEPT !.nonce = PendingNonceAt(tx.fromAddress),
                                      !.gasLimit = flags.gasLimit]
                  /\ pc' = IF singleNeedsEstimate(flags.gasLimit) THEN "estimate" ELSE "sign"
                  /\ UNCHANGED <<i, successCount, failCount, outcomes>>
       ELSE /\ tx' = [tx EXCEPT !.nonce = sent[Len(sent)].nonce + 1,
                                !.gasLimit = flags.gasLimit]
            /\ pc' = IF singleNeedsEstimate(flags.gasLimit) THEN "estimate" ELSE "sign"
            /\ UNCHANGED <<i, successCount, failCount, outcomes, calls>>
    /\ UNCHANGED <<cmd, result, flags, chain, gasPriceWei, cfg, wallets, totalWallets,
                   totalBatches, batchIndex, auth, recipients, amounts, sent, sleeps,
                   attempted, readResult>>
    /\ UNCHANGED probeVars

\* client.PendingNonceAt(fromAddress); gasLimit := singleTransferGasLimit
SingleNonce ==
    /\ cmd = "single-transfer" /\ pc = "nonce"
    /\ calls' = Append(calls, Call("PendingNonceAt", i + 1))
    /\ \/ SingleFail("nonce") /\ UNCHANGED tx
       \/ /\ tx' = [tx EXCEPT !.nonce = PendingNonceAt(tx.fromAddress),
                              !.gasLimit = flags.gasLimit]
          /\ pc' = IF singleNeedsEstimate(flags.gasLimit) THEN "estimate" ELSE "sign"
          /\ UNCHANGED <<i, successCount, failCount, outcomes>>
    /\ UNCHANGED <<cmd, result, flags, chain, gasPriceWei, cfg, wallets, totalWallets,
                   totalBatches, batchIndex, auth, recipients, amounts, sent, sleeps,
                   attempted, readResult>>
    /\ UNCHANGED probeVars

\* client.EstimateGas for the transfer, then the 20% buffer
SingleEstimateGas ==
    /\ cmd = "single-transfer" /\ pc = "estimate"
    /\ calls' = Append(calls, Call("EstimateGas", i + 1))
    /\ \/ SingleFail("estimate gas") /\ UNCHANGED tx
       \/ /\ tx' = [tx EXCEPT !.gasLimit = GasBuffer(EstimateGas(i + 1))]
          /\ pc' = "sign"
          /\ UNCHANGED <<i, successCount, failCount, outcomes>>
    /\ UNCHANGED <<cmd, result, flags, chain, gasPriceWei, cfg, wallets, totalWallets,
                   totalBatches, batchIndex, auth, recipients, amounts, sent, sleeps,
                   attempted, readResult>>
    /\ UNCHANGED probeVars

\* types.NewTransaction, client.ChainID, types.SignTx
SingleSignTx ==
    /\ cmd = "single-transfer" /\ pc = "sign"
    /\ calls' = Append(calls, Call("ChainID", i + 1))
    /\ \/ SingleFail("chain id")
       \/ SingleFail("sign")
       \/ /\ pc' = "send"
          /\ UNCHANGED <<i, successCount, failCount, outcomes>>
    /\ UNCHANGED <<cmd, result, flags, chain, gasPriceWei, cfg, wallets, totalWallets,
                   totalBatches, batchIndex, auth, recipients, amounts, tx, sent, sleeps,
                   attempted, readResult>>
    /\ UNCHANGED probeVars

\* a submission error logged with the message of an on-chain failure
SingleSendTransactionGeneric ==
    /\ cmd = "single-transfer" /\ pc = "send"
    /\ calls' = Append(calls, Call("SendTransaction", i + 1))
    /\ \/ SingleFail("reverted") /\ UNCHANGED sent
       \/ /\ sent' = Append(sent, [unit |-> i + 1, from |-> tx.fromAddress,
                                   recipients |-> <<>>, amounts |-> <<>>,
                                   value |-> flags.amount, gasLimit |-> tx.gasLimit,
                                   gasPrice |-> gasPriceWei, nonce |-> tx.nonce])
          /\ pc' = "wait"
          /\ UNCHANGED <<i, successCount, failCount, outcomes>>
    /\ UNCHANGED <<cmd, result, flags, chain, gasPriceWei, cfg, wallets, totalWallets,
                   totalBatches, batchIndex, auth, recipients, amounts, tx, sleeps,
                   attempted, readResult>>
    /\ UNCHANGED probeVars

\* client.SendTransaction(signedTx)
SingleSendTransaction ==
    /\ cmd = "single-transfer" /\ pc = "send"
    /\ calls' = Append(calls, Call("SendTransaction", i + 1))
    /\ \/ SingleFail("send transaction") /\ UNCHANGED sent
       \/ /\ sent' = Append(sent, [unit |-> i + 1, from |-> tx.fromAddress,
                                   recipients |-> <<>>, amounts |-> <<>>,
                                   value |-> flags.amount, gasLimit |-> tx.gasLimit,
                                   gasPrice |-> gasPriceWei, nonce |-> tx.nonce])
          /\ pc' = "wait"
          /\ UNCHANGED <<i, successCount, failCount, outcomes>>
    /\ UNCHANGED <<cmd, result, flags, chain, gasPriceWei, cfg, wallets, totalWallets,
                   totalBatches, batchIndex, auth, recipients, amounts, tx, sleeps,
                   attempted, readResult>>
    /\ UNCHANGED probeVars

\* a revert branch without its continue: the wallet is counted as failed and
\* then falls through to the success bookkeeping
SingleWaitMinedFallThrough ==
    /\ cmd = "single-transfer" /\ pc = "wait"
    /\ calls' = Append(calls, Call("WaitMined", i + 1))
    /\ \/ SingleFail("wait mined")
       \/ /\ failCount' = failCount + 1
          /\ successCount' = successCount + 1
          /\ outcomes' = outcomes \o <<[unit |-> i + 1, status |-> "reverted"],
                                       [unit |-> i + 1, status |-> "success"]>>
          /\ pc' = "loop" /\ i' = i + 1
       \/ /\ successCount' = successCount + 1
          /\ outcomes' = Append(outcomes, [unit |-> i + 1, status |-> "success"])
          /\ IF singleNeedsDelay(i, totalWallets, flags.delay)
             THEN pc' = "sleep" /\ UNCHANGED i
             ELSE pc' = "loop" /\ i' = i + 1
          /\ UNCHANGED failCount
    /\ UNCHANGED <<cmd, result, flags, chain, gasPriceWei, cfg, wallets, totalWallets,
                   totalBatches, batchIndex, auth, recipients, amounts, tx, sent, sleeps,
                   attempted, readResult>>
    /\ UNCHANGED probeVars

\* bind.WaitMined, the receipt status, successCount++, and the decision to pause
SingleWaitMined ==
    /\ cmd = "single-transfer" /\ pc = "wait"
    /\ calls' = Append(calls, Call("WaitMined", i + 1))
    /\ \/ SingleFail("wait mined")
       \/ SingleFail("reverted")
       \/ /\ successCount' = successCount + 1
          /\ outcomes' = Append(outcomes, [unit |-> i + 1, status |-> "success"])
          /\ IF singleNeedsDelay(i, totalWallets, flags.delay)
             THEN pc' = "sleep" /\ UNCHANGED i
             ELSE pc' = "loop" /\ i' = i + 1
          /\ UNCHANGED failCount
    /\ UNCHANGED <<cmd, result, flags, chain, gasPriceWei, cfg, wallets, totalWallets,
                   totalBatches, batchIndex, auth, recipients, amounts, tx, sent, sleeps,
                   attempted, readResult>>
    /\ UNCHANGED probeVars

\* time.Sleep(singleTransferDelay seconds)
SingleSleep ==
    /\ cmd = "single-transfer" /\ pc = "sleep"
    /\ sleeps' = Append(sleeps, [after |-> i + 1, duration |-> flags.delay])
    /\ i' = i + 1
    /\ pc' = "loop"
    /\ UNCHANGED <<cmd, result, flags, chain, gasPriceWei, cfg, wallets, totalWallets,
                   totalBatches, batchIndex, auth, recipients, amounts, tx, successCount,
                   failCount, calls, sent, attempted, outcomes, readResult>>
    /\ UNCHANGED probeVars

\* a loop bound that is off by one: the tally is reached only past the end
SingleFinishPastEnd ==
    /\ cmd = "single-transfer" /\ pc = "loop" /\ i > Len(wallets)
    /\ pc' = "exit"
    /\ result' = Ended("ok", "", 0)
    /\ UNCHANGED <<cmd, flags, chain, gasPriceWei, cfg, wallets, totalWallets,
                   totalBatches, batchIndex, i, auth, recipients, amounts, tx,
                   successCount, failCount, calls, sent, sleeps, attempted, outcomes,
                   readResult>>
    /\ UNCHANGED probeVars

\* the loop is over: log the tally
SingleFinish ==
    /\ cmd = "single-transfer" /\ pc = "loop" /\ i >= Len(wallets)
    /\ pc' = "exit"
    /\ result' = Ended("ok", "", 0)
    /\ UNCHANGED <<cmd, flags, chain, gasPriceWei, cfg, wallets, totalWallets,
                   totalBatches, batchIndex, i, auth, recipients, amounts, tx,
                   successCount, failCount, calls, sent, sleeps, attempted, outcomes,
                   readResult>>
    /\ UNCHANGED probeVars

NextSingle ==
    \/ SingleConnect
    \/ SingleReadWallets
    \/ SingleParseKey
    \/ SingleNonce
    \/ SingleEstimateGas
    \/ SingleSignTx
    \/ SingleSendTransaction
    \/ SingleWaitMined
    \/ SingleSleep
    \/ SingleFinish

SpecSingle == InitSingle /\ [][NextSingle]_vars

(* ------------------- the ledger reader on its own --------------------- *)
HeaderCells == { <<"Address">>, <<"Private Key">>, <<"Mnemonic">>, <<"Addr">> }

\* all header rows of 1..MaxCols cells
ReaderHeaders ==
    UNION { [1..c -> HeaderCells] : c \in 1..MaxCols }

\* data rows of 1..MaxCols fields, the first with surrounding white space
ReaderRows ==
    { [j \in 1..c |-> IF j = 1 THEN <<" ", "x", " ">> ELSE <<"y">>] : c \in 1..MaxCols }

\* files of at most MaxRows rows, and a path that names no file
ReaderFiles ==
    { NoFile, FileOf(<<>>) }
    \cup { FileOf(<<h>> \o d) :
              h \in ReaderHeaders,
              d \in UNION { [1..n -> ReaderRows] : n \in 0..(MaxRows - 1) } }

InitReader ==
    /\ cmd = "read"
    /\ \E csv \in ReaderFiles :
          flags = [csv |-> csv, senderCSV |-> NoFile, senderIndex |-> 0,
                   amount |-> 0, gasMultiplier |-> "1.0001", batchSize |-> batchSize,
                   gasLimit |-> U64Zero, maxWallets |-> 0, delay |-> 0]
    /\ chain = [suggestedGasPrice |-> 0, estimateBase |-> U64Zero]
    /\ InitLocals
    /\ NoProbe

\* one call of readWalletsFromCSV on the file
ReadWallets ==
    /\ cmd = "read" /\ pc = "start"
    /\ readResult' = readWalletsFromCSV(FileAt("csv"))
    /\ pc' = "exit"
    /\ UNCHANGED <<cmd, result, flags, chain, gasPriceWei, cfg, wallets, totalWallets,
                   totalBatches, batchIndex, i, auth, recipients, amounts, tx,
                   successCount, failCount, calls, sent, sleeps, attempted, outcomes>>
    /\ UNCHANGED probeVars

NextReader == ReadWallets

SpecReader == InitReader /\ [][NextReader]_vars

(* ------------------------- CheckRPCCmd.Run ---------------------------- *)
\* response times a successful check can measure
ResponseTimes == {1, 2}

\* --stats and --format as given on the command line
ProbeFlagInputs ==
    { [showStats |-> FALSE, outputFormat |-> "text"],
      [showStats |-> TRUE,  outputFormat |-> "text"],
      [showStats |-> FALSE, outputFormat |-> "json"] }

InitProbe ==
    /\ cmd = "check-rpc"
    /\ flags = [csv |-> NoFile, senderCSV |-> NoFile, senderIndex |-> 0,
                amount |-> 0, gasMultiplier |-> "1.0001", batchSize |-> batchSize,
                gasLimit |-> U64Zero, maxWallets |-> 0, delay |-> 0]
    /\ chain = [suggestedGasPrice |-> 0, estimateBase |-> U64Zero]
    /\ InitLocals
    /\ nodes = 1..MaxNodes
    /\ probeFlags \in ProbeFlagInputs
    /\ InitProbeLocals

\* capacity of the results channel for n endpoints
chanCapOne(n) == 1

chanCap(n) == n

\* cap of a slice of the given len and cap after append of one element
appendCap(len, cap) ==
    IF len + 1 <= cap THEN cap
    ELSE IF cap = 0 THEN 1 ELSE 2 * cap

\* a runtime panic ends the whole process
ProbePanic(reason) ==
    /\ fault' = reason
    /\ UNCHANGED <<nodes, probeFlags, mainPc, probePc, closerPc, wg, results, closed,
                   pending, nodeResults, capNodeResults, delivered, closes>>

\* for _, node := range nodes { wg.Add(1); go func ... }
RunSpawn ==
    /\ cmd = "check-rpc" /\ fault = "none" /\ mainPc = "spawn"
    /\ \E n \in nodes :
          /\ probePc[n] = "idle"
          /\ \A m \in nodes : m < n => probePc[m] # "idle"
          /\ wg' = wg + 1
          /\ probePc' = [probePc EXCEPT ![n] = "call"]
    /\ UNCHANGED <<nodes, probeFlags, mainPc, closerPc, results, closed, pending,
                   nodeResults, capNodeResults, delivered, closes, fault>>
    /\ UNCHANGED transferVars

\* go func() { wg.Wait(); close(results) }()
RunStartCloser ==
    /\ cmd = "check-rpc" /\ fault = "none" /\ mainPc = "spawn"
    /\ \A n \in nodes : probePc[n] # "idle"
    /\ closerPc' = "wait"
    /\ mainPc' = "collect"
    /\ UNCHANGED <<nodes, probeFlags, probePc, wg, results, closed, pending,
                   nodeResults, capNodeResults, delivered, closes, fault>>
    /\ UNCHANGED transferVars

\* checkNode up to its send: DialContext fails, or BlockNumber fails, or both
\* succeed and time.Since(start) is measured
checkNodeCall(n) ==
    /\ cmd = "check-rpc" /\ fault = "none" /\ probePc[n] = "call"
    /\ \/ pending' = [pending EXCEPT
                         ![n] = [URL |-> n, ResponseTime |-> 0, Error |-> "dial"]]
       \/ pending' = [pending EXCEPT
                         ![n] = [URL |-> n, ResponseTime |-> 0, Error |-> "block number"]]
       \/ \E t \in ResponseTimes :
             pending' = [pending EXCEPT
                            ![n] = [URL |-> n, ResponseTime |-> t, Error |-> "nil"]]
    /\ probePc' = [probePc EXCEPT ![n] = "send"]
    /\ UNCHANGED <<nodes, probeFlags, mainPc, closerPc, wg, results, closed,
                   nodeResults, capNodeResults, delivered, closes, fault>>
    /\ UNCHANGED transferVars

\* checkNode: results <- NodeResult{...}; the send waits while the buffer is full
checkNodeSend(n) ==
    /\ cmd = "check-rpc" /\ fault = "none" /\ probePc[n] = "send"
    /\ IF closed
       THEN ProbePanic("send on closed channel")
       ELSE /\ Len(results) < chanCap(Cardinality(nodes))
            /\ results' = Append(results, pending[n])
            /\ delivered' = [delivered EXCEPT
                                 ![n] = Append(@, IF pending[n].Error = "nil"
                                                  THEN "success" ELSE "error")]
            /\ pending' = [pending EXCEPT ![n] = NoResult]
            /\ probePc' = [probePc EXCEPT ![n] = "return"]
            /\ UNCHANGED <<nodes, probeFlags, mainPc, closerPc, wg, closed,
                           nodeResults, capNodeResults, closes, fault>>
    /\ UNCHANGED transferVars

\* the goroutine returns: defer cancel(), defer wg.Done()
checkNodeReturn(n) ==
    /\ cmd = "check-rpc" /\ fault = "none" /\ probePc[n] = "return"
    /\ wg' = wg - 1
    /\ probePc' = [probePc EXCEPT ![n] = "done"]
    /\ UNCHANGED <<nodes, probeFlags, mainPc, closerPc, results, closed, pending,
                   nodeResults, capNodeResults, delivered, closes, fault>>
    /\ UNCHANGED transferVars

\* wg.Wait() without waiting
CloserWaitNoWait ==
    /\ cmd = "check-rpc" /\ fault = "none" /\ closerPc = "wait"
    /\ closerPc' = "close"
    /\ UNCHANGED <<nodes, probeFlags, mainPc, probePc, wg, results, closed, pending,
                   nodeResults, capNodeResults, delivered, closes, fault>>
    /\ UNCHANGED transferVars

\* wg.Wait()
CloserWait ==
    /\ cmd = "check-rpc" /\ fault = "none" /\ closerPc = "wait"
    /\ wg = 0
    /\ closerPc' = "close"
    /\ UNCHANGED <<nodes, probeFlags, mainPc, probePc, wg, results, closed, pending,
                   nodeResults, capNodeResults, delivered, closes, fault>>
    /\ UNCHANGED transferVars

\* close(results)
CloserClose ==
    /\ cmd = "check-rpc" /\ fault = "none" /\ closerPc = "close"
    /\ IF closed
       THEN ProbePanic("close of closed channel")
       ELSE /\ closed' = TRUE
            /\ closes' = closes + 1
            /\ closerPc' = "done"
            /\ UNCHANGED <<nodes, probeFlags, mainPc, probePc, wg, results, pending,
                           nodeResults, capNodeResults, delivered, fault>>
    /\ UNCHANGED transferVars

\* if result.Error == nil
keepsResult(r) == r.Error = "nil"

\* for result := range results: one received result
RunCollect ==
    /\ cmd = "check-rpc" /\ fault = "none" /\ mainPc = "collect"
    /\ results # <<>>
    /\ results' = Tail(results)
    /\ IF keepsResult(Head(results))
       THEN /\ nodeResults' = Append(nodeResults, Head(results))
            /\ capNodeResults' = appendCap(Len(nodeResults), capNodeResults)
       ELSE UNCHANGED <<nodeResults, capNodeResults>>
    /\ UNCHANGED <<nodes, probeFlags, mainPc, probePc, closerPc, wg, closed, pending,
                   delivered, closes, fault>>
    /\ UNCHANGED transferVars

\* for result := range results: the channel is closed and drained
RunCollectEnd ==
    /\ cmd = "check-rpc" /\ fault = "none" /\ mainPc = "collect"
    /\ results = <<>> /\ closed
    /\ mainPc' = "sort"
    /\ UNCHANGED <<nodes, probeFlags, probePc, closerPc, wg, results, closed, pending,
                   nodeResults, capNodeResults, delivered, closes, fault>>
    /\ UNCHANGED transferVars

\* the orders sort.Slice can leave s in: it is not a stable sort
sortSlice(s) ==
    { [k \in 1..Len(s) |-> s[p[k]]] : p \in
        { q \in Permutations(1..Len(s)) :
            \A a, b \in 1..Len(s) :
                a < b => ~(s[q[b]].ResponseTime < s[q[a]].ResponseTime) } }

\* sort.Slice(nodeResults, ...)
RunSort ==
    /\ cmd = "check-rpc" /\ fault = "none" /\ mainPc = "sort"
    /\ nodeResults' \in sortSlice(nodeResults)
    /\ mainPc' = "output"
    /\ UNCHANGED <<nodes, probeFlags, probePc, closerPc, wg, results, closed, pending,
                   capNodeResults, delivered, closes, fault>>
    /\ UNCHANGED transferVars

\* outputText: "none", or the panic that stops it
outputText(res, cap, showStats) ==
    IF showStats /\ Len(res) = 0 THEN "integer divide by zero"
    ELSE IF 3 > cap THEN "slice bounds out of range"
    ELSE "none"

\* switch outputFormat
RunOutput ==
    /\ cmd = "check-rpc" /\ fault = "none" /\ mainPc = "output"
    /\ fault' = IF probeFlags.outputFormat \in {"json", "csv"} THEN "none"
                ELSE outputText(nodeResults, capNodeResults, probeFlags.showStats)
    /\ mainPc' = "exit"
    /\ UNCHANGED <<nodes, probeFlags, probePc, closerPc, wg, results, closed, pending,
                   nodeResults, capNodeResults, delivered, closes>>
    /\ UNCHANGED transferVars

NextProbe ==
    \/ RunSpawn
    \/ RunStartCloser
    \/ \E n \in nodes : checkNodeCall(n)
    \/ \E n \in nodes : checkNodeSend(n)
    \/ \E n \in nodes : checkNodeReturn(n)
    \/ CloserWait
    \/ CloserClose
    \/ RunCollect
    \/ RunCollectEnd
    \/ RunSort
    \/ RunOutput

SpecProbe == InitProbe /\ [][NextProbe]_vars

(* --------------------------- both commands ---------------------------- *)
Init == InitBatch \/ InitSingle

Next == NextBatch \/ NextSingle

Spec == Init /\ [][Next]_vars

(* ======================= properties of the commands ==================== *)
\* number of data rows of the ledger --csv names
LedgerLen == IF flags.csv.rows = <<>> THEN 0 ELSE Len(flags.csv.rows) - 1

\* number of records left after the cap --max-wallets
CappedLen ==
    IF flags.maxWallets > 0 /\ LedgerLen > flags.maxWallets THEN flags.maxWallets ELSE LedgerLen

\* address of the j-th record of the ledger, as written in the file
LedgerAddress(j) == HexToAddress(TrimSpace(flags.csv.rows[j + 1][1]))

\* least m with m * c >= n
CeilDiv(n, c) == CHOOSE m \in 0..n : m * c >= n /\ (m = 0 \/ (m - 1) * c < n)

\* C1: the k-th submitted chunk is chunk k and holds exactly the ledger
\* records (k-1)*C+1 .. min(k*C, N), in ledger order, N being the number of
\* recipients after the cap and C the chunk size 300; a run that ends without
\* a failed chunk has submitted exactly ceil(N/C) chunks.
C1_Partition ==
    /\ \A k \in 1..Len(sent) :
          LET lo == (k - 1) * batchSize + 1
              hi == IF k * batchSize < CappedLen THEN k * batchSize ELSE CappedLen
          IN  /\ sent[k].unit = k
              /\ lo <= hi
              /\ sent[k].recipients = [j \in 1..(hi - lo + 1) |-> LedgerAddress(lo + j - 1)]
    /\ result.status = "ok" => Len(sent) = CeilDiv(CappedLen, batchSize)

\* the ledger of 650 recipients was sent as chunks of 300, 300 and 50
C1_Witness ==
    /\ cmd = "batch-transfer" /\ result.status = "ok"
    /\ LedgerLen = 650 /\ flags.maxWallets = 0
    /\ Len(sent) = 3
    /\ Len(sent[1].recipients) = 300
    /\ Len(sent[2].recipients) = 300
    /\ Len(sent[3].recipients) = 50

\* units of the run that ended in failure (reverted or any error)
FailedUnits == { k \in 1..Len(outcomes) : outcomes[k].status # "success" }

\* C2: once a chunk k has failed (revert, estimation, submission or
\* confirmation error) the batch run has ended with an error naming chunk k,
\* and no chunk after k was prepared, estimated, submitted or waited for.
C2_BatchAbort ==
    cmd = "batch-transfer" =>
        \A k \in FailedUnits :
            /\ pc = "exit"
            /\ result.status = "fatal" /\ result.unit = outcomes[k].unit
            /\ k = Len(outcomes)
            /\ \A c \in 1..Len(calls) : calls[c].unit <= outcomes[k].unit
            /\ \A a \in 1..Len(attempted) : attempted[a] <= outcomes[k].unit
            /\ \A t \in 1..Len(sent) : sent[t].unit <= outcomes[k].unit

\* chunk 2 of 3 reverted on chain and chunk 3 was never attempted
C2_Witness ==
    /\ cmd = "batch-transfer" /\ totalBatches = 3
    /\ Len(outcomes) = 2
    /\ outcomes[1].status = "success" /\ outcomes[2].status = "reverted"
    /\ attempted = <<1, 2>>

\* C3: the wallets are attempted one by one in ledger order, each once;
\* a wallet's failure leaves the loop at the next wallet, and the run ends
\* only after all N wallets (after the cap) were attempted.
C3_Continuation ==
    cmd = "single-transfer" =>
        /\ attempted = [k \in 1..Len(attempted) |-> k]
        /\ Len(attempted) <= CappedLen
        /\ \A k \in FailedUnits :
              /\ outcomes[k].unit = k
              /\ (pc = "loop" /\ Len(outcomes) = k) => i = k
              /\ (pc = "loop" /\ Len(outcomes) = k /\ k < CappedLen) => ENABLED SingleParseKey
        /\ (pc = "exit" /\ wallets # <<>>) =>
              /\ result.status = "ok"
              /\ Len(attempted) = CappedLen
              /\ Len(outcomes) = CappedLen

\* 3 wallets, the key of wallet 2 does not parse: wallets 1 and 3 succeeded
C3_Witness ==
    /\ cmd = "single-transfer" /\ result.status = "ok"
    /\ totalWallets = 3
    /\ outcomes[1].status = "success"
    /\ outcomes[2].status = "invalid key"
    /\ outcomes[3].status = "success"

\* number of wallets whose processing is over
Processed == IF pc = "sleep" THEN i + 1 ELSE i

\* C4: succeeded + failed equals the number of wallets processed so far, each
\* wallet adding one to exactly one counter, and equals totalUnits at the end.
C4_Tally ==
    (cmd = "single-transfer" /\ wallets # <<>>) =>
        /\ successCount + failCount = Processed
        /\ successCount = Cardinality({k \in 1..Len(outcomes) : outcomes[k].status = "success"})
        /\ failCount = Cardinality(FailedUnits)
        /\ Len(outcomes) = Processed
        /\ result.status = "ok" => successCount + failCount = CappedLen

\* a finished run of 3 wallets with 2 successes and 1 failure
C4_Witness ==
    /\ cmd = "single-transfer" /\ result.status = "ok"
    /\ totalWallets = 3 /\ successCount = 2 /\ failCount = 1

\* C5: with a fixed gas limit > 0 no unit of either dispatcher is estimated,
\* and every unit is submitted with exactly the fixed limit.
C5_FixedGasLimit ==
    flags.gasLimit # U64Zero =>
        /\ \A c \in 1..Len(calls) : calls[c].op # "EstimateGas"
        /\ \A t \in 1..Len(sent) : sent[t].gasLimit = flags.gasLimit

\* three transfers were submitted under a fixed gas limit
C5_Witness ==
    /\ cmd = "single-transfer" /\ flags.gasLimit # U64Zero
    /\ result.status = "ok" /\ Len(sent) = 3

\* q[lo] + ... + q[hi], summed by halves
RECURSIVE SumRange(_, _, _)
SumRange(q, lo, hi) ==
    IF lo > hi THEN 0
    ELSE IF lo = hi THEN q[lo]
    ELSE LET mid == (lo + hi) \div 2
         IN  SumRange(q, lo, mid) + SumRange(q, mid + 1, hi)

SeqSum(q) == SumRange(q, 1, Len(q))

\* C6: every submitted chunk has as many amounts as recipients, each amount
\* is the per-recipient amount, and the attached value is the sum of the
\* amounts, which is the per-recipient amount times the number of recipients.
C6_ChunkValue ==
    cmd = "batch-transfer" =>
        \A t \in 1..Len(sent) :
            /\ Len(sent[t].recipients) = Len(sent[t].amounts)
            /\ \A j \in 1..Len(sent[t].amounts) : sent[t].amounts[j] = flags.amount
            /\ sent[t].value = SeqSum(sent[t].amounts)
            /\ sent[t].value = flags.amount * Len(sent[t].recipients)

\* a full chunk and a partial chunk of 50 were submitted
C6_Witness ==
    /\ cmd = "batch-transfer" /\ Len(sent) = 2
    /\ Len(sent[1].recipients) = 300 /\ sent[1].value = 900
    /\ Len(sent[2].recipients) = 50 /\ sent[2].value = 150

\* C7: with a delay > 0 the dispatcher pauses after every wallet but the
\* last, whatever the wallet's outcome; it never pauses after the last wallet
\* nor when the delay is 0.
C7_Pacing ==
    cmd = "single-transfer" =>
        /\ flags.delay = 0 => sleeps = <<>>
        /\ \A s \in 1..Len(sleeps) :
              sleeps[s].after < totalWallets /\ sleeps[s].duration = flags.delay
        /\ flags.delay > 0 =>
              \A k \in 1..Len(attempted) :
                  k >= 2 => \E s \in 1..Len(sleeps) : sleeps[s].after = k - 1

\* C8: the pauses of a batch run are exactly one 5-second pause after each
\* successful non-final chunk, taken before the next chunk is touched; there
\* is none after the last chunk and none after a chunk that aborted the run.
C8_CoolDown ==
    cmd = "batch-transfer" =>
        /\ sleeps = [k \in 1..Len(sleeps) |-> [after |-> k, duration |-> 5]]
        /\ \A k \in 1..Len(sleeps) :
              k < totalBatches /\ k <= Len(outcomes) /\ outcomes[k].status = "success"
        /\ \A a \in 1..Len(attempted) : Len(sleeps) >= attempted[a] - 1
        /\ (pc = "exit" /\ attempted # <<>>) => Len(sleeps) = Len(attempted) - 1

\* three chunks were confirmed with two pauses in between
C8_Witness ==
    /\ cmd = "batch-transfer" /\ result.status = "ok"
    /\ totalBatches = 3 /\ Len(sleeps) = 2

\* a file the specification calls malformed
Malformed(file) ==
    /\ file.exists
    /\ \/ Len(file.rows) < 2
       \/ file.rows[1] # expectedHeaders
       \/ \E r \in 2..Len(file.rows) : Len(file.rows[r]) # 3

\* C9: the reader answers every malformed file with an error value and no
\* wallet records.
C9_Rejects ==
    (cmd = "read" /\ pc = "exit" /\ Malformed(flags.csv)) =>
        readResult.kind = "error" /\ readResult.wallets = <<>>

\* C10: with a cap > 0 below the ledger's length exactly the first cap
\* records are processed, otherwise all of them; no record after the cap is
\* ever part of a unit.
C10_Cap ==
    wallets # <<>> =>
        /\ totalWallets = CappedLen
        /\ Len(wallets) = CappedLen
        /\ \A j \in 1..Len(wallets) : HexToAddress(wallets[j].Address) = LedgerAddress(j)
        /\ cmd = "single-transfer" =>
              /\ \A a \in 1..Len(attempted) : attempted[a] <= CappedLen
              /\ \A t \in 1..Len(sent) :
                    /\ sent[t].unit <= CappedLen
                    /\ sent[t].from = LedgerAddress(sent[t].unit)
              /\ result.status = "ok" => Len(attempted) = CappedLen
        /\ cmd = "batch-transfer" =>
              /\ \A t \in 1..Len(sent) : \A j \in 1..Len(sent[t].recipients) :
                    LET n == (sent[t].unit - 1) * batchSize + j
                    IN  n <= CappedLen /\ sent[t].recipients[j] = LedgerAddress(n)
              /\ result.status = "ok" =>
                    SeqSum([t \in 1..Len(sent) |-> Len(sent[t].recipients)]) = CappedLen

\* a ledger of 650 recipients capped at 350: chunks of 300 and 50
C10_Witness ==
    /\ cmd = "batch-transfer" /\ result.status = "ok"
    /\ LedgerLen = 650 /\ flags.maxWallets = 350
    /\ Len(sent) = 2 /\ Len(sent[2].recipients) = 50

\* units that have a terminal outcome
Terminal == { outcomes[k].unit : k \in 1..Len(outcomes) }

\* units whose loop body was entered and that have no outcome yet
InFlight == { attempted[a] : a \in 1..Len(attempted) } \ Terminal

\* C11: at most one unit is in flight; the chain client calls are made in
\* unit order, and when a call is made for a unit every earlier unit already
\* has its terminal outcome.
C11_Sequential ==
    /\ Cardinality(InFlight) <= 1
    /\ \A c \in 1..Len(calls) :
          /\ \A u \in 1..(calls[c].unit - 1) : u \in Terminal
          /\ \A d \in c..Len(calls) : calls[c].unit <= calls[d].unit

\* wallet 1 reverted, and wallet 2 is now waiting for its receipt
C11_Witness ==
    /\ cmd = "single-transfer" /\ pc = "wait" /\ i = 1
    /\ Len(outcomes) = 1 /\ outcomes[1].status = "reverted"
    /\ InFlight = {2}

\* the submission call (Transact / SendTransaction) was made for unit u
SubmitCalled(u) ==
    \E c \in 1..Len(calls) :
        calls[c].unit = u /\ calls[c].op \in {"Transact", "SendTransaction"}

\* the chain accepted the transaction of unit u
Submitted(u) == \E t \in 1..Len(sent) : sent[t].unit = u

\* the phase of unit u in the shared state machine
UnitPhase(u) ==
    IF u \in Terminal
    THEN LET st == outcomes[CHOOSE k \in 1..Len(outcomes) : outcomes[k].unit = u].status
         IN  IF st = "success" THEN "Confirmed-Success"
             ELSE IF st = "reverted" THEN "Confirmed-Reverted"
             ELSE "Failed"
    ELSE IF Submitted(u) THEN "Submitted"
    ELSE IF \E a \in 1..Len(attempted) : attempted[a] = u THEN "Pending"
    ELSE "Unattempted"

\* every unit is attempted at most once and gets at most one outcome
OneOutcomePerUnit ==
    /\ \A a, b \in 1..Len(attempted) : attempted[a] = attempted[b] => a = b
    /\ \A k, l \in 1..Len(outcomes) : outcomes[k].unit = outcomes[l].unit => k = l
    /\ \A t, v \in 1..Len(sent) : sent[t].unit = sent[v].unit => t = v

\* C12 (as stated): every unit with a terminal outcome has exactly one, and
\* reached it after its submission call was made.
C12_StateMachine ==
    /\ OneOutcomePerUnit
    /\ \A u \in Terminal : SubmitCalled(u)

\* the edges of the state machine the code follows; entering the loop body
\* and failing to parse the key is one step
PhaseEdges ==
    { <<"Unattempted", "Pending">>, <<"Unattempted", "Failed">>,
      <<"Pending", "Submitted">>, <<"Pending", "Failed">>,
      <<"Submitted", "Confirmed-Success">>, <<"Submitted", "Confirmed-Reverted">>,
      <<"Submitted", "Failed">> }

\* C12 (amended): every unit gets at most one outcome; it moves only along
\* Pending -> Submitted -> {Confirmed-Success, Confirmed-Reverted, Failed} or
\* Pending -> Failed (an error before the chain accepted it); a terminal phase
\* is never left; success and revert are reached only through Submitted.
C12_Amended ==
    /\ []OneOutcomePerUnit
    /\ [](\A u \in Terminal :
            UnitPhase(u) \in {"Confirmed-Success", "Confirmed-Reverted"} => Submitted(u))
    /\ [][\A u \in 1..Len(attempted') :
            UnitPhase(u)' = UnitPhase(u) \/ <<UnitPhase(u), UnitPhase(u)'>> \in PhaseEdges]_vars

\* wallet 1 failed before submission, wallet 2 was submitted and reverted,
\* wallet 3 was submitted and confirmed
C12_Witness ==
    /\ cmd = "single-transfer" /\ result.status = "ok" /\ Len(outcomes) = 3
    /\ UnitPhase(1) = "Failed" /\ ~SubmitCalled(1)
    /\ UnitPhase(2) = "Confirmed-Reverted" /\ Submitted(2)
    /\ UnitPhase(3) = "Confirmed-Success" /\ Submitted(3)

\* number of calls of operation op made for unit u
CallCount(op, u) ==
    Cardinality({ c \in 1..Len(calls) : calls[c].op = op /\ calls[c].unit = u })

\* C13: each unit is estimated, signed, submitted and waited for at most
\* once and has at most one transaction; once a unit has its outcome, no
\* further call is made and no further transaction is submitted for it.
C13_NoRetry ==
    /\ [](\A u \in 1..Len(attempted) :
            /\ \A op \in {"PendingNonceAt", "EstimateGas", "ChainID", "Transact",
                           "SendTransaction", "WaitMined"} : CallCount(op, u) <= 1
            /\ Cardinality({ t \in 1..Len(sent) : sent[t].unit = u }) <= 1)
    /\ [][/\ Len(calls') > Len(calls) => calls'[Len(calls')].unit \notin Terminal
          /\ Len(sent') > Len(sent) => sent'[Len(sent')].unit \notin Terminal
          /\ Len(attempted') > Len(attempted) => attempted'[Len(attempted')] \notin Terminal]_vars

\* the submission of wallet 1 failed; the run went on to wallet 2 and ended
\* with one transaction, that of wallet 2
C13_Witness ==
    /\ cmd = "single-transfer" /\ result.status = "ok"
    /\ Len(outcomes) = 2
    /\ outcomes[1].status = "send transaction" /\ outcomes[2].status = "success"
    /\ Len(sent) = 1 /\ sent[1].unit = 2
    /\ CallCount("SendTransaction", 1) = 1

\* the scale of the command's fixed-point multiplication
FeeScale == IF cmd = "batch-transfer" THEN 100 ELSE 10000

\* C14: within a dispatcher the gas price is a function of the suggested
\* price and the multiplier alone, computed once; every unit of the run, the
\* first as the last, is submitted with exactly that price.
C14_FeeDeterministic ==
    LET price == applyMultiplier(chain.suggestedGasPrice, flags.gasMultiplier, FeeScale)
    IN  /\ attempted # <<>> => gasPriceWei = price
        /\ (cmd = "batch-transfer" /\ attempted # <<>>) =>
               cfg.GasPrice = price /\ auth.GasPrice = price
        /\ \A t \in 1..Len(sent) : sent[t].gasPrice = price

\* three chunks were all submitted at 20000 * 1.5 = 30000
C14_Witness ==
    /\ cmd = "batch-transfer" /\ result.status = "ok"
    /\ chain.suggestedGasPrice = 20000 /\ flags.gasMultiplier = "1.5"
    /\ Len(sent) = 3
    /\ \A t \in 1..3 : sent[t].gasPrice = 30000

\* C15: the gas price a unit is submitted with is the one the Batch
\* Dispatcher and the Sequential Transfer Dispatcher both compute from the
\* run's suggested price and multiplier.
C15_SharedFee ==
    \A t \in 1..Len(sent) :
        /\ sent[t].gasPrice =
              applyMultiplier(chain.suggestedGasPrice, flags.gasMultiplier, 100)
        /\ sent[t].gasPrice =
              applyMultiplier(chain.suggestedGasPrice, flags.gasMultiplier, 10000)

\* floor(g * 12 / 10) of a uint64 g, computed without loss: five limbs, most
\* significant first
FloorBuffer(g) ==
    LET p4 == g[4] * 12
        p3 == g[3] * 12 + (p4 \div LimbBase)
        p2 == g[2] * 12 + (p3 \div LimbBase)
        p1 == g[1] * 12 + (p2 \div LimbBase)
        p0 == p1 \div LimbBase
        t1 == (p0 % 10) * LimbBase + (p1 % LimbBase)
        t2 == (t1 % 10) * LimbBase + (p2 % LimbBase)
        t3 == (t2 % 10) * LimbBase + (p3 % LimbBase)
        t4 == (t3 % 10) * LimbBase + (p4 % LimbBase)
    IN  <<p0 \div 10, t1 \div 10, t2 \div 10, t3 \div 10, t4 \div 10>>

\* position in calls of the call of operation op for unit u (0 if none)
CallAt(op, u) ==
    IF CallCount(op, u) = 0 THEN 0
    ELSE CHOOSE c \in 1..Len(calls) : calls[c].op = op /\ calls[c].unit = u

\* C16: without a fixed gas limit every submitted unit was estimated exactly
\* once, before its submission, and carries floor(estimate * 12 / 10) of its
\* own estimate, whatever uint64 value the estimate has.
C16_GasBuffer ==
    flags.gasLimit = U64Zero =>
        \A t \in 1..Len(sent) :
            LET u == sent[t].unit
                submit == IF cmd = "batch-transfer" THEN "Transact" ELSE "SendTransaction"
            IN  /\ CallCount("EstimateGas", u) = 1
                /\ CallAt("EstimateGas", u) < CallAt(submit, u)
                /\ <<0>> \o sent[t].gasLimit = FloorBuffer(EstimateGas(u))

\* C17: when the node suggests a gas price of 0 the computed price is 0
\* whatever the multiplier, the run is not ended on account of it, and every
\* unit is dispatched with gas price 0.
C17_ZeroPrice ==
    chain.suggestedGasPrice = 0 =>
        /\ gasPriceWei = 0
        /\ cmd = "batch-transfer" => cfg.GasPrice = 0 /\ auth.GasPrice = 0
        /\ \A t \in 1..Len(sent) : sent[t].gasPrice = 0
        /\ (pc = "connect" \/ (cmd = "single-transfer" /\ pc = "start")) =>
               ENABLED (/\ BatchConnect \/ SingleConnect
                        /\ result' = Running
                        /\ gasPriceWei' = 0)

\* with a suggested price of 0 and the multiplier 1.15, three transfers were
\* submitted and confirmed at gas price 0
C17_Witness ==
    /\ cmd = "single-transfer" /\ result.status = "ok"
    /\ chain.suggestedGasPrice = 0 /\ flags.gasMultiplier = "1.15"
    /\ successCount = 3 /\ Len(sent) = 3
    /\ \A t \in 1..3 : sent[t].gasPrice = 0

\* a ledger the reader does not accept: no such file, or a malformed one
BadLedger(file) == ~file.exists \/ Malformed(file)

\* the calls that act for a unit: nonce lookup, estimation, signing, submission
OnChainOps ==
    {"PendingNonceAt", "EstimateGas", "ChainID", "Transact", "SendTransaction", "WaitMined"}

\* C18: when a ledger of the run (recipients, senders, or the batch sender
\* file) is not accepted by the reader, the run never leaves its prologue:
\* no unit is attempted, no nonce lookup, estimation, signing or submission
\* is made, and the run does not end successfully.
C18_MalformedFatal ==
    ((cmd = "batch-transfer" /\ (BadLedger(flags.senderCSV) \/ BadLedger(flags.csv)))
        \/ (cmd = "single-transfer" /\ BadLedger(flags.csv))) =>
        /\ pc \in {"start", "connect", "execute", "read", "exit"}
        /\ attempted = <<>> /\ sent = <<>> /\ wallets = <<>>
        /\ \A c \in 1..Len(calls) : calls[c].op \notin OnChainOps
        /\ pc = "exit" => result.status \in {"fatal", "panic"}

\* the recipients ledger has a wrong header: the batch run ended with a
\* fatal error right after asking the gas price
C18_Witness ==
    /\ cmd = "batch-transfer" /\ pc = "exit"
    /\ ~BadLedger(flags.senderCSV)
    /\ flags.csv.exists /\ flags.csv.rows[1][1] = <<"Addr">>
    /\ result.status = "fatal" /\ result.reason = "recipient ledger"
    /\ calls = <<Call("SuggestGasPrice", 0)>>

\* C19: a batch run that aborted in its loop reports the number k of the
\* chunk that failed; at that moment chunks 1..k-1 are confirmed successful,
\* chunk k is the one failure, and chunks k+1..M were never attempted.
C19_FailureReport ==
    (cmd = "batch-transfer" /\ (FailedUnits # {} \/ (result.status = "fatal" /\ attempted # <<>>))) =>
        LET k == result.unit
        IN  /\ result.status = "fatal" /\ pc = "exit"
            /\ k \in 1..totalBatches
            /\ Len(outcomes) = k
            /\ \A u \in 1..(k - 1) : outcomes[u] = [unit |-> u, status |-> "success"]
            /\ outcomes[k].unit = k /\ outcomes[k].status \in {"failed", "reverted"}
            /\ attempted = [u \in 1..k |-> u]
            /\ \A t \in 1..Len(sent) : sent[t].unit = t /\ t <= k
            /\ Len(sent) >= k - 1

\* 650 recipients, revert on chunk 2: the report names chunk 2, chunk 1 is
\* confirmed, chunk 3 was never attempted
C19_Witness ==
    /\ cmd = "batch-transfer" /\ LedgerLen = 650 /\ flags.maxWallets = 0
    /\ result = Ended("fatal", "reverted", 2)
    /\ outcomes = <<[unit |-> 1, status |-> "success"], [unit |-> 2, status |-> "reverted"]>>
    /\ attempted = <<1, 2>> /\ Len(sent) = 2 /\ totalBatches = 3

\* what the run logs as the outcome of the k-th finished unit: the message of
\* the wallet's failure, or the error the batch run returned
OutcomeRecord(k) ==
    IF cmd = "batch-transfer" /\ outcomes[k].status # "success"
    THEN result.reason
    ELSE outcomes[k].status

\* the outcome messages of a unit that never reached the chain
NotOnChain ==
    {"invalid key", "nonce", "estimate gas", "chain id", "sign", "send transaction"}

\* C20: a unit recorded as reverted was submitted (it has a transaction hash)
\* and waited for; a finished unit that never reached the chain is recorded
\* with one of the pre-chain failures, never as reverted.
C20_OutcomeDistinction ==
    \A k \in 1..Len(outcomes) :
        LET u == outcomes[k].unit
        IN  /\ OutcomeRecord(k) = "reverted" =>
                  Submitted(u) /\ CallCount("WaitMined", u) = 1
            /\ ~Submitted(u) => OutcomeRecord(k) \in NotOnChain
            /\ OutcomeRecord(k) \in NotOnChain => ~Submitted(u)

\* wallet 1 reverted on chain, the submission of wallet 2 failed
C20_Witness ==
    /\ cmd = "single-transfer" /\ result.status = "ok" /\ Len(outcomes) = 2
    /\ OutcomeRecord(1) = "reverted" /\ Submitted(1)
    /\ OutcomeRecord(2) = "send transaction" /\ ~Submitted(2)

\* units still to be finished: all of the ledger before it is read, none at
\* the end
Remaining ==
    IF pc = "exit" THEN 0
    ELSE IF pc \in {"start", "connect", "execute", "opts", "read"} THEN LedgerLen + 1
    ELSE IF cmd = "batch-transfer" THEN totalBatches - batchIndex
    ELSE Len(wallets) - i

\* position inside the prologue or inside a unit, counted down
Stage ==
    CASE pc = "exit" -> 0
      [] pc = "start" -> 4
      [] pc = "connect" -> 3
      [] pc = "execute" -> 2
      [] pc = "read" -> 3
      [] pc = "opts" -> 1
      [] pc = "loop" -> 7
      [] pc = "nonce" -> 6
      [] pc = "estimate" -> 5
      [] pc = "sign" -> 4
      [] pc = "send" -> 3
      [] pc = "transact" -> 3
      [] pc = "wait" -> 2
      [] pc = "sleep" -> 1

\* a measure of the work left
Rank == 16 * Remaining + Stage

\* a run that has not ended is at a step of its command, and at the head of
\* its loop it either has a unit left to take or can leave the loop
CanStep ==
    /\ cmd = "single-transfer" =>
          /\ pc \in {"start", "read", "loop", "nonce", "estimate", "sign", "send",
                      "wait", "sleep", "exit"}
          /\ pc = "loop" => (i < Len(wallets) \/ ENABLED SingleFinish)
    /\ cmd = "batch-transfer" =>
          /\ pc \in {"start", "connect", "execute", "opts", "loop", "estimate",
                      "transact", "wait", "sleep", "exit"}
          /\ pc = "loop" => (batchIndex < totalBatches \/ ENABLED BatchFinish)

\* C21: a run that has not ended can always take a step (every call
\* returning), every step lowers a natural-number measure of the work left, so
\* every run ends; a sequential run that entered its loop ends with the tally
\* of all its wallets, and a batch run that entered its loop ends either after
\* ceil(N/C) confirmed chunks or at its first failed chunk.
C21_Termination ==
    /\ []CanStep
    /\ [](Rank >= 0)
    /\ [][Rank' < Rank]_vars
    /\ []((cmd = "single-transfer" /\ pc = "exit" /\ wallets # <<>>) =>
              result.status = "ok" /\ successCount + failCount = totalWallets)
    /\ []((cmd = "batch-transfer" /\ pc = "exit" /\ attempted # <<>>) =>
              \/ /\ result.status = "ok" /\ FailedUnits = {}
                 /\ Len(outcomes) = CeilDiv(totalWallets, batchSize)
              \/ /\ result.status = "fatal" /\ FailedUnits = {Len(outcomes)}
                 /\ Len(attempted) = Len(outcomes))

\* a sequential run of three wallets that all failed reached its tally
C21_Witness ==
    /\ cmd = "single-transfer" /\ pc = "exit" /\ result.status = "ok"
    /\ totalWallets = 3 /\ failCount = 3 /\ successCount = 0

\* the signing key of wallet u of the run, as the dispatcher parses it
WalletKey(u) == HexToECDSA(TrimPrefix0x(wallets[u].PrivateKey))

\* wallet u is past its nonce lookup
PastNonce(u) ==
    \/ u \in Terminal /\ OutcomeRecord(CHOOSE k \in 1..Len(outcomes) : outcomes[k].unit = u) # "invalid key"
    \/ u = i + 1 /\ pc \in {"estimate", "sign", "send", "wait", "sleep"}

\* C22: every wallet whose key parses gets exactly one nonce lookup, made
\* before its chain-id query and its submission; the nonce of the wallet's
\* transaction is the one the node holds for the wallet's own address.
C22_NonceFresh ==
    cmd = "single-transfer" =>
        /\ \A u \in 1..Len(attempted) :
              /\ CallCount("PendingNonceAt", u) <= 1
              /\ (WalletKey(u).ok /\ PastNonce(u)) => CallCount("PendingNonceAt", u) = 1
              /\ \A op \in {"EstimateGas", "ChainID", "SendTransaction"} :
                    CallCount(op, u) > 0 =>
                        /\ CallCount("PendingNonceAt", u) = 1
                        /\ CallAt("PendingNonceAt", u) < CallAt(op, u)
        /\ pc \in {"estimate", "sign", "send"} =>
              /\ tx.fromAddress = PubkeyToAddress(WalletKey(i + 1).key)
              /\ tx.nonce = PendingNonceAt(tx.fromAddress)
        /\ \A t \in 1..Len(sent) :
              /\ sent[t].from = PubkeyToAddress(WalletKey(sent[t].unit).key)
              /\ sent[t].nonce = PendingNonceAt(sent[t].from)

\* three wallets were submitted with three different nonces, each its own
C22_Witness ==
    /\ cmd = "single-transfer" /\ result.status = "ok" /\ Len(sent) = 3
    /\ sent[1].nonce = 10 /\ sent[2].nonce = 20 /\ sent[3].nonce = 30
    /\ \A u \in 1..3 : CallCount("PendingNonceAt", u) = 1

\* the checks that delivered a success
Successful == { n \in nodes : delivered[n] = <<"success">> }

\* C23: probe join.  One check is started per endpoint and each delivers
\* exactly one result, success or error; the collection ends and the sort
\* begins only after every check has delivered and every result has been
\* received; the sorted list holds exactly the successful checks, in
\* non-decreasing response time.
C23_Join ==
    cmd = "check-rpc" =>
        /\ \A n \in nodes :
              /\ Len(delivered[n]) = IF probePc[n] \in {"return", "done"} THEN 1 ELSE 0
              /\ mainPc # "spawn" => probePc[n] # "idle"
        /\ wg = Cardinality({ n \in nodes : probePc[n] \notin {"idle", "done"} })
        /\ mainPc \in {"sort", "output", "exit"} =>
              /\ \A n \in nodes : Len(delivered[n]) = 1 /\ probePc[n] = "done"
              /\ results = <<>>
              /\ Len(nodeResults) = Cardinality(Successful)
              /\ { nodeResults[k].URL : k \in 1..Len(nodeResults) } = Successful
              /\ \A k \in 1..Len(nodeResults) :
                    /\ nodeResults[k].Error = "nil"
                    /\ nodeResults[k].ResponseTime \in ResponseTimes
        /\ mainPc \in {"output", "exit"} =>
              \A a, b \in 1..Len(nodeResults) :
                  a < b => nodeResults[a].ResponseTime <= nodeResults[b].ResponseTime

\* two successful checks are sorted by response time against their order in the
\* list of endpoints, and one check failed
C23_Witness ==
    /\ cmd = "check-rpc" /\ mainPc = "output"
    /\ Len(nodeResults) = 2
    /\ nodeResults[1].ResponseTime < nodeResults[2].ResponseTime
    /\ nodeResults[1].URL > nodeResults[2].URL
    /\ \E n \in nodes : delivered[n] = <<"error">>

\* C24: the configured chunk size is honoured.  With --batch-size B > 0 every
\* submitted chunk holds at most B recipients, and a run that ends without a
\* failed chunk has issued ceil(N/B) chunks.
C24_ConfiguredChunk ==
    (cmd = "batch-transfer" /\ flags.batchSize > 0) =>
        /\ \A k \in 1..Len(sent) : Len(sent[k].recipients) <= flags.batchSize
        /\ result.status = "ok" => Len(sent) = CeilDiv(CappedLen, flags.batchSize)

\* C25: no state leaks between chunks through the reused options object.  The
\* value chunk k is submitted with is the per-recipient amount times the number
\* of records of chunk k; without a fixed gas limit its gas limit is the
\* buffered estimate of chunk k itself; the gas price and the signer are those
\* the options object was built with, for every chunk.
C25_NoLeak ==
    cmd = "batch-transfer" =>
        \A k \in 1..Len(sent) :
            LET lo == (k - 1) * batchSize + 1
                hi == IF k * batchSize < CappedLen THEN k * batchSize ELSE CappedLen
            IN  /\ sent[k].value = cfg.AmountPerWallet * (hi - lo + 1)
                /\ flags.gasLimit = U64Zero =>
                      sent[k].gasLimit = GasBuffer(EstimateGas(sent[k].unit))
                /\ sent[k].gasPrice = cfg.GasPrice
                /\ sent[k].gasPrice = sent[1].gasPrice
                /\ sent[k].from = sent[1].from
                /\ sent[k].from = auth.From

\* three chunks of 300, 300 and 50 were submitted in estimation mode: the last
\* value is smaller than the one before it and the three gas limits differ
C25_Witness ==
    /\ cmd = "batch-transfer" /\ flags.gasLimit = U64Zero /\ Len(sent) = 3
    /\ sent[1].value = 900 /\ sent[2].value = 900 /\ sent[3].value = 150
    /\ sent[1].gasLimit # sent[2].gasLimit
    /\ sent[2].gasLimit # sent[3].gasLimit
    /\ sent[1].gasLimit # sent[3].gasLimit

\* unit u was submitted, then waited for, and its receipt had a non-zero status
ConfirmedOk(u) ==
    /\ Submitted(u)
    /\ CallCount("WaitMined", u) = 1
    /\ CallAt(IF cmd = "batch-transfer" THEN "Transact" ELSE "SendTransaction", u)
           < CallAt("WaitMined", u)
    /\ \E k \in 1..Len(outcomes) : outcomes[k] = [unit |-> u, status |-> "success"]
    /\ \A k \in 1..Len(outcomes) : outcomes[k].unit = u => outcomes[k].status = "success"

\* C26: ExecuteBatchTransfer, once it has read its N recipients, returns nil
\* if and only if every one of the ceil(N/300) chunks was submitted and
\* confirmed with a non-zero receipt status; the sequential success counter
\* counts exactly the wallets so confirmed and never exceeds the number of
\* submitted transactions.
C26_Success ==
    /\ (cmd = "batch-transfer" /\ wallets # <<>>) =>
          /\ pc # "exit" => result.status = "running"
          /\ (pc = "exit" /\ result.status \in {"ok", "fatal"}) =>
                (result.status = "ok" <=>
                    \A u \in 1..CeilDiv(CappedLen, batchSize) : ConfirmedOk(u))
    /\ cmd = "single-transfer" =>
          /\ successCount = Cardinality({ u \in 1..Len(wallets) : ConfirmedOk(u) })
          /\ \A k \in 1..Len(outcomes) :
                outcomes[k].status = "success" => ConfirmedOk(outcomes[k].unit)
          /\ successCount <= Len(sent)

\* a batch run of three chunks returned nil
C26_Witness ==
    /\ cmd = "batch-transfer" /\ pc = "exit" /\ result.status = "ok"
    /\ CeilDiv(CappedLen, batchSize) = 3
    /\ \A u \in 1..3 : ConfirmedOk(u)

\* wallets of the run whose signing key does not parse
InvalidKeys == { u \in 1..Len(wallets) : ~WalletKey(u).ok }

\* C27: in sequential mode a wallet whose private key fails to parse is
\* counted as exactly one failure, and no facade call (nonce lookup,
\* estimation, chain-id query, submission, wait) is ever made for it.
C27_InvalidKey ==
    cmd = "single-transfer" =>
        /\ \A u \in InvalidKeys :
              /\ \A c \in 1..Len(calls) : calls[c].unit # u
              /\ \A t \in 1..Len(sent) : sent[t].unit # u
              /\ u <= Len(attempted) =>
                    /\ Cardinality({ k \in 1..Len(outcomes) : outcomes[k].unit = u }) = 1
                    /\ outcomes[u] = [unit |-> u, status |-> "invalid key"]
        /\ Cardinality({ k \in 1..Len(outcomes) : outcomes[k].status = "invalid key" })
               = Cardinality(InvalidKeys \cap 1..Len(attempted))
        /\ failCount >= Cardinality(InvalidKeys \cap 1..Len(attempted))
        /\ failCount = Cardinality(FailedUnits)

\* three wallets, the key of the second does not parse: the run is over with
\* one failure and calls for wallets 1 and 3 only
C27_Witness ==
    /\ cmd = "single-transfer" /\ pc = "exit" /\ totalWallets = 3
    /\ InvalidKeys = {2}
    /\ failCount = 1 /\ successCount = 2
    /\ { calls[c].unit : c \in 1..Len(calls) } = {0, 1, 3}

\* C28: probe channel safety.  In every interleaving a check that is about to
\* send finds a free slot and an open channel, so it neither blocks nor sends
\* after the close; the buffer never holds more than one result per endpoint;
\* the channel is closed at most once, and exactly once when the collection
\* ends; no run-time fault occurs before the report; and the collector never
\* deadlocks: whenever it finds the channel empty and open, a check or the
\* closer can still move, and once the channel is closed it can receive or end.
C28_ChannelSafety ==
    cmd = "check-rpc" =>
        /\ \A n \in nodes :
              probePc[n] = "send" =>
                  /\ ~closed
                  /\ Len(results) < Cardinality(nodes)
                  /\ ENABLED checkNodeSend(n)
        /\ Len(results) <= Cardinality(nodes)
        /\ closes <= 1
        /\ closes = IF closed THEN 1 ELSE 0
        /\ closed <=> closerPc = "done"
        /\ closed => \A n \in nodes : probePc[n] = "done"
        /\ mainPc \in {"sort", "output", "exit"} => closes = 1
        /\ mainPc # "exit" => fault = "none"
        /\ (mainPc = "collect" /\ results = <<>> /\ ~closed) =>
              \/ \E n \in nodes : ENABLED checkNodeCall(n) \/ ENABLED checkNodeSend(n)
                                     \/ ENABLED checkNodeReturn(n)
              \/ ENABLED CloserWait
              \/ ENABLED CloserClose
        /\ (mainPc = "collect" /\ closed) => ENABLED RunCollect \/ ENABLED RunCollectEnd

\* every check is about to send while the collector waits on the empty channel
C28_Witness ==
    /\ cmd = "check-rpc" /\ mainPc = "collect" /\ results = <<>> /\ ~closed
    /\ \A n \in nodes : probePc[n] = "send"
    /\ Cardinality(nodes) >= 2

\* C29: probe report.  Whatever the number of successful checks, from 0 up to
\* the number of endpoints, the text report completes without a fault: it
\* reads no entry beyond the collected results and divides by no zero count.
C29_TextReport ==
    (cmd = "check-rpc" /\ probeFlags.outputFormat = "text" /\ mainPc = "exit") =>
        fault = "none"

====
